---- MODULE Spec2Model ----
(***************************************************************************)
(* Model of the parallel upload benchmark, src/v2-parallel.py.             *)
(*                                                                         *)
(* The main thread runs run_continuous: for every run it polls the         *)
(* gateway (wait_for_server), executes run_upload and folds the returned   *)
(* tuple into the series statistics.  run_upload creates a                 *)
(* ThreadPoolExecutor with max_workers = args.threads, hands it the        *)
(* generator tasks (executor.map) and, after the settle delay and the      *)
(* trigger-file barrier, the upload tasks (executor.submit); it collects   *)
(* the upload futures with as_completed and leaves the `with` block,       *)
(* which joins the pool.  The pool runs at most args.threads tasks at a    *)
(* time and takes them from one FIFO work queue.                           *)
(*                                                                         *)
(* Time is time.monotonic() in whole ticks, counted from the entry of the  *)
(* current run_upload call; only differences of timestamps are used by    *)
(* the program.  A curl request takes at least one tick.                   *)
(***************************************************************************)
EXTENDS Integers, Sequences, FiniteSets, TLC

\* ------------------------------------------------------------- bounds
MaxThreads == 2
MaxRuns == 2
MaxTime == 2
MaxBlob == 1

\* ---------------------------------------------------------- constants
None == -1
NegInf == -2
PosInf == MaxTime + 1
MiB == 1048576

VARIABLES
    args,                \* parsed command line: threads, blobsize, continuous, report
    pc,                  \* position of the main thread
    i,                   \* loop index of run_continuous (run number is i + 1)
    server,              \* outcome of the last readiness probe
    num_successes,       \* the module-level success counter
    num_successes_total, \* cumulative successes of the series
    queue,               \* the executor's FIFO work queue
    gen,                 \* generator task of each worker index
    up,                  \* upload task (future) of each worker index
    collected,           \* upload futures already yielded by as_completed
    requests,            \* POSTs received by the upload endpoint in this run
    ru,                  \* locals of run_upload
    result,              \* the tuple returned by run_upload
    now,                 \* time.monotonic() since the entry of run_upload
    polled,              \* the k with /tmp/trigger-k on disk, as the barrier's last poll found them
    files,               \* payload files on disk
    stats,               \* locals of run_continuous
    stdout,              \* the block last printed on standard output
    final,               \* the final report
    hist,                \* how many of the runs folded so far took each elapsed time
    saved                \* the report file of the run in hand, once save_report has written it

vars == << args, pc, i, server, num_successes, num_successes_total, queue, gen,
           up, collected, requests, ru, result, now, polled, files, stats,
           stdout, final, hist, saved >>

\* ------------------------------------------------------------ helpers
Idx == 0 .. (args.threads - 1)
RunNumbers == 1 .. MaxRuns
run_number == i + 1

\* one file name for every worker
TestfileNameShared(n) == << 0, 0, 0 >>

\* f"testfile-{n:03}.bin": the three zero-padded decimal digits of n (n < 1000)
TestfileName(n) == << n \div 100, (n \div 10) % 10, n % 10 >>
AllNames == { TestfileName(n) : n \in 0 .. (MaxThreads - 1) }

\* exact quotient n / d, kept as a fraction
Rat(n, d) == [n |-> n, d |-> d]
RatAdd(a, b) == Rat(a.n * b.d + b.n * a.d, a.d * b.d)
RatEq(a, b) == a.n * b.d = b.n * a.d
RatLe(a, b) == a.n * b.d <= b.n * a.d
NoRat == Rat(0, 1)

NoGen == "none"
NoUp == [st |-> "none", file |-> << >>, t0 |-> 0, tt |-> 0, tmp |-> 0, res |-> None]
NoResult == << None, None, None, None >>
NoReport == [run |-> 0]

GenActive(j) == gen[j] \in {"queued", "running"}
UpActive(j) == up[j].st \in {"queued", "curl", "store"}
UpStarted(j) == up[j].st \in {"curl", "store", "done"}
\* tasks the pool's threads are executing right now
RunningCount ==
    Cardinality({j \in Idx : gen[j] = "running"})
    + Cardinality({j \in Idx : up[j].st \in {"curl", "store"}})
\* a pool thread is free to take the next work item
ThreadFree == RunningCount < args.threads

\* The values of args.report that are run.  BooleanOptionalAction gives True
\* for --report, and None or False otherwise; run_continuous tests only its
\* truth.  Without --report save_report is not called and no other step
\* differs, so every run without it is a run with it less the report file:
\* the series is run with --report.
ReportFlags == {TRUE}

\* The values of args.threads that are run: "-t" is parsed with type=int and
\* is not validated, so 0 and negative counts reach run_upload.
ThreadCounts == (-1) .. MaxThreads

\* ---------------------------------------------------------------- Init
Init ==
    /\ args \in [threads : ThreadCounts, blobsize : 1 .. MaxBlob,
                 continuous : 1 .. MaxRuns, report : ReportFlags]
    /\ pc = "loop"
    /\ i = 0
    /\ server = "none"
    /\ num_successes = 0
    /\ num_successes_total = 0
    /\ queue = << >>
    /\ gen = [j \in Idx |-> NoGen]
    /\ up = [j \in Idx |-> NoUp]
    /\ collected = {}
    /\ requests = [j \in Idx |-> << >>]
    /\ ru = [slowest_time |-> NegInf, fastest_time |-> PosInf, start_time |-> None]
    /\ result = NoResult
    /\ now = 0
    /\ polled = {}
    /\ files = [f \in AllNames |-> [st |-> "absent", size |-> 0]]
    /\ stats = [best_time |-> None, best_speed |-> NoRat,
                slowest_time |-> None, slowest_speed |-> NoRat,
                total_time |-> 0, total_speed |-> NoRat]
    /\ stdout = NoReport
    /\ final = NoReport
    /\ hist = [t \in 1 .. MaxTime |-> 0]
    /\ saved = NoReport

\* ------------------------------------------------------- wait_for_server
\* One probe of the gateway: curl fails (check_output raises, the handler
\* sleeps 1 s), or it answers with another body (the loop goes round at
\* once), or it answers "hello world" (break).
WaitForServer(out) ==
    /\ pc = "probe"
    /\ server' = out
    /\ pc' = CASE out = "error" -> "probe_sleep"
               [] out = "other" -> "probe"
               [] out = "hello" -> "run_upload"
    /\ UNCHANGED << args, i, num_successes, num_successes_total, queue, gen, up,
                    collected, requests, ru, result, now, polled, files, stats,
                    stdout, final, hist, saved >>

ProbeSleep ==
    /\ pc = "probe_sleep"
    /\ pc' = "probe"
    /\ UNCHANGED << args, i, server, num_successes, num_successes_total, queue,
                    gen, up, collected, requests, ru, result, now, polled, files,
                    stats, stdout, final, hist, saved >>

\* ------------------------------------------------------------ run_upload
\* the reset left out: the counter keeps the previous run's value
ResetCounterSkipped == num_successes

\* num_successes = 0
ResetCounter == 0

\* executor.map(generate_testfile, range(args.threads)): every generator is
\* submitted at once, in index order; the lazy result iterator is dropped.
GenTasks == [n \in 1 .. args.threads |-> [kind |-> "gen", num |-> n - 1]]

\* every worker handed the first worker's file
UploadFileFirst(j) == TestfileName(0)

\* [executor.submit(upload_thread, i, f"testfile-{i:03}.bin") for i in range(...)]
UploadFile(j) == TestfileName(j)
UploadTasks == [n \in 1 .. args.threads |-> [kind |-> "up", num |-> n - 1]]

\* the pool is created whatever the worker count
PoolRefusedNever == FALSE

\* ThreadPoolExecutor(max_workers=args.threads) raises ValueError
\* ("max_workers must be greater than 0") for a count of 0 or less
PoolRefused == args.threads <= 0

\* entry of run_upload up to the executor.map call
RunUploadEnter ==
    /\ pc = "run_upload"
    /\ ~PoolRefused
    /\ num_successes' = ResetCounter
    /\ ru' = [slowest_time |-> NegInf, fastest_time |-> PosInf, start_time |-> None]
    /\ queue' = GenTasks
    /\ gen' = [j \in Idx |-> "queued"]
    /\ up' = [j \in Idx |-> NoUp]
    /\ collected' = {}
    /\ requests' = [j \in Idx |-> << >>]
    /\ result' = NoResult
    /\ now' = 0
    /\ pc' = "settle"
    /\ UNCHANGED << args, i, server, num_successes_total, polled, files, stats,
                    stdout, final, hist, saved >>

\* entry of run_upload with a worker count the pool refuses: the counter and
\* the sentinels are set, the constructor raises, nothing catches the
\* exception and the process ends with a traceback
RunUploadAbort ==
    /\ pc = "run_upload"
    /\ PoolRefused
    /\ num_successes' = ResetCounter
    /\ ru' = [slowest_time |-> NegInf, fastest_time |-> PosInf, start_time |-> None]
    /\ pc' = "aborted"
    /\ UNCHANGED << args, i, server, num_successes_total, queue, gen, up,
                    collected, requests, result, now, polled, files, stats,
                    stdout, final, hist, saved >>

\* time.sleep(1)
Settle ==
    /\ pc = "settle"
    /\ pc' = "barrier"
    /\ UNCHANGED << args, i, server, num_successes, num_successes_total, queue,
                    gen, up, collected, requests, ru, result, now, polled, files,
                    stats, stdout, final, hist, saved >>

\* any trigger file at all taken for this run's
TriggerAny(E, k) == E # {}

\* os.path.exists("/tmp/trigger-" + str(k)), on a disk holding the trigger
\* files numbered by E
TriggerExists(E, k) == k \in E

\* One poll of the barrier.  The external driver creates and removes trigger
\* files at will, so each poll finds some set E of them on disk; the loop
\* is left when this run's own file is among them, else the poll sleeps
\* 40 ms and looks again.
BarrierPoll(E) ==
    /\ pc = "barrier"
    /\ polled' = E
    /\ pc' = IF TriggerExists(E, run_number) THEN "start" ELSE "barrier"
    /\ UNCHANGED << args, i, server, num_successes, num_successes_total, queue,
                    gen, up, collected, requests, ru, result, now, files,
                    stats, stdout, final, hist, saved >>

\* start_time = time.monotonic()
RecordStart ==
    /\ pc = "start"
    /\ ru' = [ru EXCEPT !.start_time = now]
    /\ polled' = {}
    /\ pc' = "submit"
    /\ UNCHANGED << args, i, server, num_successes, num_successes_total, queue,
                    gen, up, collected, requests, result, now, files,
                    stats, stdout, final, hist, saved >>

\* futures = [executor.submit(...) ...]
SubmitUploads ==
    /\ pc = "submit"
    /\ queue' = queue \o UploadTasks
    /\ up' = [j \in Idx |-> [NoUp EXCEPT !.st = "queued", !.file = UploadFile(j)]]
    /\ pc' = "collect"
    /\ UNCHANGED << args, i, server, num_successes, num_successes_total, gen,
                    collected, requests, ru, result, now, polled, files, stats,
                    stdout, final, hist, saved >>

\* the None test left out: every outcome taken for a duration
IsDurationAlways(transfer_time) == TRUE

\* transfer_time is not None
IsDuration(transfer_time) == transfer_time # None

\* one iteration of `for future in as_completed(futures)`
Collect(j) ==
    /\ pc = "collect"
    /\ up[j].st = "done"
    /\ j \notin collected
    /\ collected' = collected \cup {j}
    /\ LET transfer_time == up[j].res
           s1 == IF IsDuration(transfer_time) /\ transfer_time > ru.slowest_time
                 THEN transfer_time ELSE ru.slowest_time
           f1 == IF IsDuration(transfer_time) /\ transfer_time < ru.fastest_time
                 THEN transfer_time ELSE ru.fastest_time
       IN ru' = [ru EXCEPT !.slowest_time = s1, !.fastest_time = f1]
    /\ UNCHANGED << args, pc, i, server, num_successes, num_successes_total,
                    queue, gen, up, requests, result, now, polled, files, stats,
                    stdout, final, hist, saved >>

\* shutdown(wait=False): the pool is left running
ShutdownNoWait == TRUE

\* ThreadPoolExecutor.__exit__ is shutdown(wait=True): it returns when the
\* work queue is drained and no pool thread is executing a task
ShutdownWait ==
    /\ queue = << >>
    /\ \A j \in Idx : ~GenActive(j) /\ ~UpActive(j)

\* the loop left at the first completed future, the pool not joined
ExecutorExitEarly ==
    /\ pc = "collect"
    /\ collected # {}
    /\ pc' = "end"
    /\ UNCHANGED << args, i, server, num_successes, num_successes_total, queue,
                    gen, up, collected, requests, ru, result, now, polled, files,
                    stats, stdout, final, hist, saved >>

\* the as_completed loop is exhausted and the `with` block is left
ExecutorExit ==
    /\ pc = "collect"
    /\ collected = Idx
    /\ ShutdownWait
    /\ pc' = "end"
    /\ UNCHANGED << args, i, server, num_successes, num_successes_total, queue,
                    gen, up, collected, requests, ru, result, now, polled, files,
                    stats, stdout, final, hist, saved >>

\* the run timed to the tick before its end
RunTimeShort(end_time, start_time) == end_time - start_time - 1

\* transfer_time = end_time - start_time
RunTime(end_time, start_time) == end_time - start_time

\* end_time = time.monotonic(); return transfer_time, slowest_time, ...
RunUploadReturn ==
    /\ pc = "end"
    /\ result' = << RunTime(now, ru.start_time), ru.slowest_time,
                    ru.fastest_time, num_successes >>
    /\ pc' = "fold"
    /\ UNCHANGED << args, i, server, num_successes, num_successes_total, queue,
                    gen, up, collected, requests, ru, now, polled, files, stats,
                    stdout, final, hist, saved >>

\* ------------------------------------------------------ the pool's tasks
\* A completed future wakes the main thread, blocked in as_completed; the
\* loop body it then runs reads the finished future and writes its own
\* locals only, so it is taken before the next step of the pool.
CollectPending ==
    pc = "collect" /\ \E j \in Idx : up[j].st = "done" /\ j \notin collected
PoolStep == ~CollectPending

\* a free pool thread takes the head of the work queue
NextTask(kind, j) ==
    /\ queue # << >>
    /\ Head(queue) = [kind |-> kind, num |-> j]
    /\ ThreadFree

\* generate_testfile: dd opens (truncates) testfile-<j> and starts writing
GenStart(j) ==
    /\ PoolStep
    /\ NextTask("gen", j)
    /\ queue' = Tail(queue)
    /\ gen' = [gen EXCEPT ![j] = "running"]
    /\ files' = [files EXCEPT ![TestfileName(j)] = [st |-> "writing", size |-> 0]]
    /\ UNCHANGED << args, pc, i, server, num_successes, num_successes_total, up,
                    collected, requests, ru, result, now, polled, stats, stdout,
                    final, hist, saved >>

\* dd has written bs = blobsize MiB, count = 1, and closed the file
GenFinish(j) ==
    /\ PoolStep
    /\ gen[j] = "running"
    /\ gen' = [gen EXCEPT ![j] = "done"]
    /\ files' = [files EXCEPT ![TestfileName(j)] =
                     [st |-> "closed", size |-> args.blobsize]]
    /\ UNCHANGED << args, pc, i, server, num_successes, num_successes_total,
                    queue, up, collected, requests, ru, result, now, polled,
                    stats, stdout, final, hist, saved >>

\* upload_thread: start_time = time.monotonic(); curl posts the file
UploadStart(j) ==
    /\ PoolStep
    /\ NextTask("up", j)
    /\ now < MaxTime
    /\ queue' = Tail(queue)
    /\ up' = [up EXCEPT ![j].st = "curl", ![j].t0 = now]
    /\ requests' = [requests EXCEPT ![j] = Append(@, up[j].file)]
    /\ UNCHANGED << args, pc, i, server, num_successes, num_successes_total, gen,
                    collected, ru, result, now, polled, files, stats, stdout,
                    final, hist, saved >>

\* curl has ended: "ok" is returncode 0 with a body starting "baf", "proto" is
\* returncode 0 with another body, "transport" is a non-zero returncode.
\* A failure returns None at once.  A success goes on to `num_successes += 1`,
\* which is a read of the global followed by a write of it with no lock
\* held: this step ends with the read, and other threads run before the
\* write.
UploadResponse(j, out) ==
    /\ PoolStep
    /\ up[j].st = "curl"
    /\ now > up[j].t0
    /\ up' = IF out = "ok"
             THEN [up EXCEPT ![j].st = "store", ![j].tt = now - up[j].t0,
                             ![j].t0 = 0, ![j].tmp = num_successes]
             ELSE [up EXCEPT ![j].st = "done", ![j].tt = 0, ![j].t0 = 0,
                             ![j].res = None]
    /\ UNCHANGED << args, pc, i, server, num_successes, num_successes_total,
                    queue, gen, collected, requests, ru, result, now, polled,
                    files, stats, stdout, final, hist, saved >>

\* the write of num_successes, then `return transfer_time`
IncStore(j) ==
    /\ PoolStep
    /\ up[j].st = "store"
    /\ num_successes' = up[j].tmp + 1
    /\ up' = [up EXCEPT ![j].st = "done", ![j].res = up[j].tt, ![j].tt = 0,
                        ![j].t0 = 0, ![j].tmp = 0]
    /\ UNCHANGED << args, pc, i, server, num_successes_total, queue, gen,
                    collected, requests, ru, result, now, polled, files, stats,
                    stdout, final, hist, saved >>

\* ------------------------------------------------------------- the clock
\* Time passes while a dd or a curl is running, between the run's start and
\* end timestamps.  The clock stops at MaxTime, and keeps one tick in hand
\* for every upload that has not begun.
Tick ==
    /\ PoolStep
    /\ pc \in {"submit", "collect"}
    /\ \E j \in Idx : gen[j] = "running" \/ up[j].st = "curl"
    /\ now < MaxTime
    /\ (\E j \in Idx : up[j].st \in {"none", "queued"}) => now + 1 < MaxTime
    /\ now' = now + 1
    /\ UNCHANGED << args, pc, i, server, num_successes, num_successes_total,
                    queue, gen, up, collected, requests, ru, result, polled,
                    files, stats, stdout, final, hist, saved >>

\* -------------------------------------------------------- the reports
\* args.threads * args.blobsize * 1024 * 1024 (the same value when threads = 1)
TotalData == args.threads * args.blobsize * MiB

\* print_report: the values of the lines it prints, before formatting.  The
\* success count is read from the global num_successes.
PrintReport(rn, transfer_time, slowest_time, fastest_time) ==
    LET many == args.threads > 1
        nominal == Rat(TotalData * 8, transfer_time * MiB)
    IN [run |-> rn,
        lines |-> IF many
                  THEN {"uploads", "rate_pct", "data", "data_success",
                        "slowest", "fastest", "time", "mbps"}
                  ELSE {"data", "time", "mbps"},
        succeeded |-> IF many THEN num_successes ELSE None,
        pct |-> IF many THEN Rat(num_successes * 100, args.threads) ELSE NoRat,
        data |-> Rat(TotalData, MiB),
        data_success |-> IF many
                         THEN Rat(TotalData * num_successes, args.threads * MiB)
                         ELSE NoRat,
        slowest |-> IF many THEN slowest_time ELSE None,
        fastest |-> IF many THEN fastest_time ELSE None,
        time |-> transfer_time,
        mbps |-> IF many
                 THEN Rat(nominal.n * num_successes, nominal.d * args.threads)
                 ELSE nominal]

\* "{:03d}".format(run_number): three zero-padded decimal digits (n < 1000)
ReportRunNumber(n) == << n \div 100, (n \div 10) % 10, n % 10 >>

\* save_report: the values of the lines it writes to
\* report-<timestamp>-<label>-<NNN>.txt, before formatting.  The rate is
\* total_data / transfer_time / 1024 / 1024 * 8 as it stands.
SaveReport(rn, transfer_time, slowest_time, fastest_time) ==
    LET many == args.threads > 1
        nominal == Rat(TotalData * 8, transfer_time * MiB)
    IN [run |-> rn,
        name |-> ReportRunNumber(rn),
        lines |-> IF many
                  THEN {"uploads", "rate_pct", "data", "data_success",
                        "slowest", "fastest", "time", "mbps"}
                  ELSE {"data", "time", "mbps"},
        succeeded |-> IF many THEN num_successes ELSE None,
        pct |-> IF many THEN Rat(num_successes * 100, args.threads) ELSE NoRat,
        data |-> Rat(TotalData, MiB),
        data_success |-> IF many
                         THEN Rat(TotalData * num_successes, args.threads * MiB)
                         ELSE NoRat,
        slowest |-> IF many THEN slowest_time ELSE None,
        fastest |-> IF many THEN fastest_time ELSE None,
        time |-> transfer_time,
        mbps |-> nominal]

\* -------------------------------------------------------- run_continuous
\* print(f"\\nRunning test {i + 1}...")
Banner(rn) == [run |-> rn, lines |-> {"running"}]

\* the loop left after its first iteration
MoreRunsOnce == i < 1

\* i in range(num_runs) has a next value
MoreRuns == i < args.continuous

\* for i in range(num_runs): the next iteration announces itself, or the
\* loop is over
Loop ==
    /\ pc = "loop"
    /\ IF MoreRuns
       THEN pc' = "probe" /\ stdout' = Banner(i + 1) /\ saved' = NoReport
       ELSE pc' = "final" /\ stdout' = stdout /\ saved' = saved
    /\ UNCHANGED << args, i, server, num_successes, num_successes_total, queue,
                    gen, up, collected, requests, ru, result, now, polled, files,
                    stats, final, hist >>

\* the run's successes added from the tuple and from the global counter too
FoldSuccessesTwice(total, tuple) == total + tuple[4] + num_successes

\* num_successes_total += transfer_time[3]
FoldSuccesses(total, tuple) == total + tuple[4]

\* the comparison of the best-time update turned round
FasterThanFlipped(t, best) == t > best

\* transfer_time[0] < best_time
FasterThan(t, best) == t < best

\* transfer_time[0] > slowest_time
SlowerThan(t, worst) == t > worst

\* the division by the elapsed time left out
RunSpeedUndivided(t) == Rat(args.threads * args.blobsize * MiB, 1)

\* total_data / transfer_time[0], with
\* total_data = args.threads * args.blobsize * 1024 * 1024
RunSpeed(t) == Rat(args.threads * args.blobsize * MiB, t)

\* the best/slowest bookkeeping of one run, t = transfer_time[0]
FoldStats(s, t) ==
    LET speed == RunSpeed(t)
        b1 == IF s.best_time = None
              THEN [s EXCEPT !.best_time = t, !.best_speed = speed] ELSE s
        b2 == IF FasterThan(t, b1.best_time)
              THEN [b1 EXCEPT !.best_time = t, !.best_speed = speed] ELSE b1
        w1 == IF b2.slowest_time = None
              THEN [b2 EXCEPT !.slowest_time = t, !.slowest_speed = speed] ELSE b2
        w2 == IF SlowerThan(t, w1.slowest_time)
              THEN [w1 EXCEPT !.slowest_time = t, !.slowest_speed = speed] ELSE w1
    IN [w2 EXCEPT !.total_time = s.total_time + t,
                  !.total_speed = RatAdd(s.total_speed, speed)]

\* the body of the loop after run_upload has returned
Fold ==
    /\ pc = "fold"
    /\ num_successes_total' = FoldSuccesses(num_successes_total, result)
    /\ stdout' = PrintReport(i + 1, result[1], result[2], result[3])
    /\ saved' = IF args.report
                THEN SaveReport(i + 1, result[1], result[2], result[3])
                ELSE saved
    /\ stats' = FoldStats(stats, result[1])
    /\ hist' = [hist EXCEPT ![result[1]] = @ + 1]
    /\ i' = i + 1
    /\ pc' = "loop"
    /\ UNCHANGED << args, server, num_successes, queue, gen, up, collected,
                    requests, ru, result, now, polled, files, final >>

\* every attempted transfer counted as moved
OverallDataAttempted ==
    Rat(args.continuous * args.threads * args.blobsize * MiB, 1)

\* overall_data_transferred = (num_successes_total / (num_runs * args.threads))
\*                            * (num_runs * args.threads) * args.blobsize * 1024 * 1024
OverallData ==
    LET attempts == args.continuous * args.threads
    IN Rat(num_successes_total * attempts * args.blobsize * MiB, attempts)

\* the final report, before formatting
FinalReport ==
    LET num_runs == args.continuous
        attempts == num_runs * args.threads
        moved == OverallData
    IN [run |-> -1,
        moved_MiB |-> Rat(moved.n, moved.d * MiB),
        total_time |-> stats.total_time,
        mbps |-> Rat(moved.n * 8, moved.d * stats.total_time * MiB),
        transfers |-> attempts,
        succeeded |-> num_successes_total,
        pct |-> Rat(num_successes_total * 100, attempts),
        best_time |-> stats.best_time,
        best_speed |-> stats.best_speed,
        slowest_time |-> stats.slowest_time,
        slowest_speed |-> stats.slowest_speed,
        average_time |-> Rat(stats.total_time, num_runs),
        average_speed |-> Rat(stats.total_speed.n, stats.total_speed.d * num_runs)]

Final ==
    /\ pc = "final"
    /\ final' = FinalReport
    /\ pc' = "done"
    /\ UNCHANGED << args, i, server, num_successes, num_successes_total, queue,
                    gen, up, collected, requests, ru, result, now, polled, files,
                    stats, stdout, hist, saved >>

\* ------------------------------------------------------------------ Next
Next ==
    \/ Loop
    \/ \E out \in {"error", "other", "hello"} : WaitForServer(out)
    \/ ProbeSleep
    \/ RunUploadEnter
    \/ RunUploadAbort
    \/ Settle
    \/ \E E \in SUBSET RunNumbers : BarrierPoll(E)
    \/ RecordStart
    \/ SubmitUploads
    \/ \E j \in Idx : Collect(j)
    \/ ExecutorExit
    \/ RunUploadReturn
    \/ \E j \in Idx : GenStart(j)
    \/ \E j \in Idx : GenFinish(j)
    \/ \E j \in Idx : UploadStart(j)
    \/ \E j \in Idx, out \in {"ok", "proto", "transport"} : UploadResponse(j, out)
    \/ \E j \in Idx : IncStore(j)
    \/ Tick
    \/ Fold
    \/ Final

Spec == Init /\ [][Next]_vars

\* ------------------------------------------------------------- fairness
\* The main thread and the pool's threads are scheduled fairly and the clock
\* advances.  Of the environment it is assumed that the readiness probe
\* answers "hello world" at some poll (the probe alternates with its sleep,
\* hence strong fairness), that the poll of the barrier at some time finds
\* the run's own trigger file, and that every curl request ends.
ProgramStep ==
    \/ Loop
    \/ ProbeSleep
    \/ RunUploadEnter
    \/ RunUploadAbort
    \/ Settle
    \/ RecordStart
    \/ SubmitUploads
    \/ \E j \in Idx : Collect(j)
    \/ ExecutorExit
    \/ RunUploadReturn
    \/ \E j \in Idx : GenStart(j)
    \/ \E j \in Idx : GenFinish(j)
    \/ \E j \in Idx : UploadStart(j)
    \/ \E j \in Idx : IncStore(j)
    \/ Tick
    \/ Fold
    \/ Final
ProbeSucceeds == WaitForServer("hello")
MarkerFound == \E E \in SUBSET RunNumbers : run_number \in E /\ BarrierPoll(E)
RequestEnds ==
    \E j \in Idx, out \in {"ok", "proto", "transport"} : UploadResponse(j, out)
Fairness ==
    /\ WF_vars(ProgramStep)
    /\ SF_vars(ProbeSucceeds)
    /\ WF_vars(MarkerFound)
    /\ WF_vars(RequestEnds)
LiveSpec == Spec /\ Fairness

\* ============================================================== claims
InRun == {"settle", "barrier", "start", "submit", "collect"}
Returned == pc = "fold"
Succeeded == {j \in Idx : up[j].st = "done" /\ up[j].res # None}
Failed == {j \in Idx : up[j].st = "done" /\ up[j].res = None}
RECURSIVE HistCountTo(_)
HistCountTo(t) == IF t = 0 THEN 0 ELSE hist[t] + HistCountTo(t - 1)
\* the number of runs folded into the statistics
HistCount == HistCountTo(MaxTime)
Elapsed == {t \in 1 .. MaxTime : hist[t] > 0}

\* C1: within a run no upload worker starts its request until every
\* generator task of that run has finished.
C1_GenerationBeforeUpload ==
    \A j \in Idx : UpStarted(j) => \A k \in Idx : gen[k] = "done"

\* C2: the success_count returned by run_upload equals the number of workers
\* that returned a duration; no increment of the counter is lost.
C2_NoLostIncrement ==
    Returned => result[4] = Cardinality(Succeeded)

\* C3: in run k the start timestamp is recorded and the uploads are
\* dispatched only by way of a poll that found /tmp/trigger-k; a poll that
\* finds only other runs' markers stays in the barrier.
C3_BarrierOwnMarker ==
    /\ [](pc = "start" => run_number \in polled)
    /\ [](pc \in {"settle", "barrier", "start"}
            => ru.start_time = None /\ \A j \in Idx : up[j].st = "none")
    /\ [][(pc = "barrier" /\ run_number \notin polled') => pc' = "barrier"]_vars
    /\ [][(ru.start_time = None /\ ru'.start_time # None)
            => (pc = "start" /\ run_number \in polled)]_vars

\* a poll of the second run finds the first run's marker and does not leave
C3_Witness ==
    pc = "barrier" /\ i = 1 /\ 1 \in polled

\* C4: tasks are active only inside the run_upload call of the current run,
\* whose predecessors have all returned and been folded into the
\* statistics; outside it the pool is quiet.
C4_RunsSequential ==
    /\ (\E j \in Idx : GenActive(j) \/ UpActive(j))
         => (pc \in InRun /\ HistCount = i)
    /\ pc \notin InRun => queue = << >>

\* a generator of the second run is running
C4_Witness ==
    i = 1 /\ args.threads >= 2 /\ \E j \in Idx : gen[j] = "running"

\* C5: with any subset of the workers failing, all N uploads are executed,
\* run_upload returns, and the returned success_count is N minus the number
\* of failed workers.
C5_FailuresCaptured ==
    Returned =>
        /\ \A j \in Idx : up[j].st = "done" /\ Len(requests[j]) = 1
        /\ result[4] = args.threads - Cardinality(Failed)

\* C6: in every run each worker index posts exactly one request, for its own
\* file: at most one at any time, none repeated after a failure, no file
\* posted by two workers, and none missing when the run returns.
C6_OneUploadPerWorker ==
    /\ \A j \in Idx : Len(requests[j]) <= 1
    /\ \A j \in Idx : UpStarted(j) => requests[j] = << TestfileName(j) >>
    /\ \A j, k \in Idx :
         (j # k /\ requests[j] # << >>) => requests[j] # requests[k]
    /\ Returned => \A j \in Idx : requests[j] = << TestfileName(j) >>

\* a run of several workers has returned, one of them having failed
C6_Witness ==
    Returned /\ args.threads >= 2 /\ Failed # {} /\ Succeeded # {}

\* C7: while any upload is outstanding run_upload has not left its loop, and
\* once the end timestamp is due every upload has completed and been
\* collected.
C7_ReturnAfterAllWorkers ==
    /\ (\E j \in Idx : UpActive(j)) => pc = "collect"
    /\ (pc = "end" \/ result # NoResult)
         => \A j \in Idx : up[j].st = "done" /\ j \in collected

\* one upload has completed, another is still in flight at the end of the
\* clock, and the run is still in its loop
C7_Witness ==
    /\ pc = "collect"
    /\ now = MaxTime
    /\ \E j, k \in Idx : up[j].st = "done" /\ up[k].st = "curl"

\* C8: the run's counter, and the count run_upload returns, lie in 0..N
\* (N a worker count that the pool accepts: with any other there is no run).
C8_CounterInRange ==
    ~PoolRefused =>
        /\ 0 <= num_successes /\ num_successes <= args.threads
        /\ result # NoResult => (0 <= result[4] /\ result[4] <= args.threads)

\* a later run of several workers returns with every worker counted
C8_Witness ==
    Returned /\ i >= 1 /\ args.threads >= 2 /\ result[4] = args.threads

\* C9: after r folded runs the cumulative total is at most r x workers, and
\* at the final report at most runs x workers.
C9_TotalBounded ==
    /\ 0 <= num_successes_total
    /\ num_successes_total <= i * args.threads
    /\ pc = "done" => (i = args.continuous
                       /\ final.succeeded <= final.transfers
                       /\ final.transfers = args.continuous * args.threads)

\* a series of several runs of several workers ends with every transfer
\* counted
C9_Witness ==
    /\ pc = "done"
    /\ args.continuous >= 2
    /\ args.threads >= 2
    /\ num_successes_total = args.continuous * args.threads

\* C10: after each run best_time is the minimum and slowest_time the maximum
\* of the elapsed times of the runs folded so far.
C10_BestWorst ==
    i >= 1 =>
        /\ stats.best_time \in Elapsed
        /\ stats.slowest_time \in Elapsed
        /\ \A t \in Elapsed : stats.best_time <= t /\ t <= stats.slowest_time

\* runs of different elapsed times have been folded
C10_Witness ==
    pc = "done" /\ stats.best_time < stats.slowest_time

\* durations of the successful workers among the futures in S
Durations(S) == {up[j].res : j \in S \cap Succeeded}
MaxOf(S) == CHOOSE x \in S : \A y \in S : y <= x
MinOf(S) == CHOOSE x \in S : \A y \in S : x <= y

\* C11: when at least one worker succeeds, the slowest value run_upload
\* returns is the maximum and the fastest the minimum of the successful
\* workers' durations, whatever the order of completion (the running values
\* are the extremes of the successes collected so far); failed workers add
\* nothing, and fastest <= slowest.
C11_SlowestFastest ==
    /\ (pc \in {"collect", "end"} /\ Durations(collected) # {})
         => /\ ru.slowest_time = MaxOf(Durations(collected))
            /\ ru.fastest_time = MinOf(Durations(collected))
    /\ (Returned /\ Succeeded # {})
         => /\ result[2] = MaxOf(Durations(Idx))
            /\ result[3] = MinOf(Durations(Idx))
            /\ result[3] <= result[2]

\* a run has returned in which one worker failed and another succeeded,
\* taking the whole of the clock
C11_Witness ==
    /\ Returned
    /\ Failed # {}
    /\ Succeeded # {}
    /\ result[2] = MaxTime

\* the per-run report of the run just folded is the block on standard output
ReportShown == i >= 1 /\ pc \in {"loop", "final", "done"}

\* C12: when no worker of a run succeeds, the returned slowest and fastest
\* values are still the sentinels, and the per-run report does not print
\* them on its "Slowest thread" / "Fastest thread" duration lines.
C12_UndefinedFlagged ==
    /\ (Returned /\ Succeeded = {})
         => (result[2] = NegInf /\ result[3] = PosInf)
    /\ (ReportShown /\ Succeeded = {})
         => /\ "slowest" \in stdout.lines => stdout.slowest # NegInf
            /\ "fastest" \in stdout.lines => stdout.fastest # PosInf

RECURSIVE GCD(_, _)
GCD(a, b) == IF b = 0 THEN a ELSE GCD(b, a % b)
\* a fraction in lowest terms
Lowest(r) == LET g == GCD(r.n, r.d) IN Rat(r.n \div g, r.d \div g)
SameRat(a, b) == Lowest(a) = Lowest(b)
\* the nominal rate R of the run just folded, in mebibit/s:
\* workers x blob size (bytes) / elapsed, x 8 / (1024 x 1024)
NominalRate == Lowest(Rat(args.threads * args.blobsize * 8, result[1]))
\* R x (s / N)
Weighted(R, s, N) == Lowest(Rat(R.n * s, R.d * N))

\* C13: the rate printed for a run with s successes out of N workers is
\* R x (s / N) when s < N and R when s = N, for every N >= 1.
C13_WeightedRate ==
    ReportShown =>
        SameRat(stdout.mbps,
                IF result[4] < args.threads
                THEN Weighted(NominalRate, result[4], args.threads)
                ELSE NominalRate)

\* C14: when a worker of a run has failed, the per-run report of that run
\* states a success percentage, and it is below 100, for every N >= 1.
C14_FailureShown ==
    (ReportShown /\ Failed # {})
        => /\ "rate_pct" \in stdout.lines
           /\ stdout.pct.n < 100 * stdout.pct.d

\* C15: for every N >= 1 the per-run report states a success percentage,
\* and it is s / N x 100 for the success count s returned by that run.
C15_Percentage ==
    ReportShown
        => /\ "rate_pct" \in stdout.lines
           /\ SameRat(stdout.pct, Rat(result[4] * 100, args.threads))

C17_SeriesCompletes ==
    /\ [][pc = "barrier"
            => (pc' = "barrier" \/ (pc' = "start" /\ run_number \in polled'))]_vars
    /\ [][i' = i \/ (i' = i + 1 /\ pc = "fold")]_vars
    /\ [](pc \in InRun => (run_number \in 1 .. args.continuous
                            /\ HistCount = run_number - 1
                            /\ stdout = Banner(run_number)))
    /\ [](pc = "done" => (i = args.continuous
                          /\ HistCount = args.continuous
                          /\ final.run = -1
                          /\ final.transfers = args.continuous * args.threads))
    /\ (args.threads >= 1 => <>(pc = "done"))

\* the longest series has ended with its final report
C17_Witness ==
    /\ pc = "done"
    /\ args.continuous = MaxRuns
    /\ HistCount = MaxRuns
    /\ final # NoReport

\* C18: the counter is 0 from the entry of every run until the run's uploads
\* are under way; the count a run returns is at most the number of that
\* run's successful workers; the cumulative total changes only when a run is
\* folded, by that run's returned count; and the count printed in a run's
\* report is the count the run returned.
C18_RunScopedCounter ==
    /\ [](pc \in {"settle", "barrier", "start", "submit"} => num_successes = 0)
    /\ []((pc = "collect" /\ Succeeded = {}) => num_successes = 0)
    /\ [](Returned => (result[4] = num_successes
                       /\ result[4] <= Cardinality(Succeeded)))
    /\ [][(pc = "fold" /\ pc' = "loop")
            => num_successes_total' = num_successes_total + result[4]]_vars
    /\ [][pc # "fold" => num_successes_total' = num_successes_total]_vars
    /\ []((ReportShown /\ "uploads" \in stdout.lines)
            => stdout.succeeded = result[4])

\* the report of a second run is shown, with successes in it and in the run
\* before it
C18_Witness ==
    /\ ReportShown
    /\ i = 2
    /\ "uploads" \in stdout.lines
    /\ stdout.succeeded >= 1
    /\ num_successes_total > stdout.succeeded

\* C19: after every run best_speed x best_time and slowest_speed x
\* slowest_time are both workers x blob size in bytes, runs of equal elapsed
\* time included.
C19_SpeedOfBestWorst ==
    i >= 1 =>
        /\ stats.best_speed.n * stats.best_time
             = args.threads * args.blobsize * MiB * stats.best_speed.d
        /\ stats.slowest_speed.n * stats.slowest_time
             = args.threads * args.blobsize * MiB * stats.slowest_speed.d

\* two runs that took the whole of the clock, tied, have been folded
C19_Witness ==
    i >= 2 /\ hist[MaxTime] >= 2 /\ stats.best_time = MaxTime

\* C20: the rate save_report writes to a run's report file is the rate
\* print_report prints for that run, for every success count.
C20_SavedRate ==
    (ReportShown /\ saved # NoReport)
        => (saved.run = stdout.run /\ SameRat(saved.mbps, stdout.mbps))

\* C21: every upload begins at or after the run's start timestamp, the
\* duration of every finished upload is at most the time since that
\* timestamp, and the slowest successful duration a run returns is at most
\* the elapsed time it returns.
C21_SlowestWithinElapsed ==
    /\ pc \in {"collect", "end"} =>
         \A j \in Idx :
            /\ up[j].st = "curl"
                 => (ru.start_time <= up[j].t0 /\ up[j].t0 <= now)
            /\ up[j].st = "store" => up[j].tt <= now - ru.start_time
            /\ (up[j].st = "done" /\ up[j].res # None)
                 => up[j].res <= now - ru.start_time
    /\ (Returned /\ Succeeded # {})
         => /\ result[2] <= result[1]
            /\ \A j \in Succeeded : up[j].res <= result[1]

\* a run has returned with two successful uploads of different durations,
\* the slower one taking the whole of the elapsed time
C21_Witness ==
    /\ Returned
    /\ result[2] = result[1]
    /\ result[3] < result[2]

\* the payload file of worker index j
FileOf(j) == files[TestfileName(j)]
Written == [st |-> "closed", size |-> args.blobsize]

\* C22: distinct worker indices have distinct payload files; a file is being
\* written exactly while the generator of its own index runs, so no two
\* generators write one file; a finished generator leaves a closed file of
\* the configured size, in the first run and in every later one; and a step
\* changes the file of an index only if it is a step of that index's
\* generator, the files of all other indices staying as they are.
C22_GeneratorPerIndex ==
    /\ [](\A j, k \in Idx : j # k => TestfileName(j) # TestfileName(k))
    /\ [](\A j \in Idx : gen[j] = "running" <=> FileOf(j).st = "writing")
    /\ [](\A j \in Idx : gen[j] = "done" => FileOf(j) = Written)
    /\ [](\A j \in Idx : (i >= 1 /\ gen[j] # "running") => FileOf(j) = Written)
    /\ [][\A j \in Idx :
            files'[TestfileName(j)] # files[TestfileName(j)]
                => (gen'[j] # gen[j] /\ "running" \in {gen[j], gen'[j]})]_vars
    /\ [][\A f \in AllNames :
            files'[f] # files[f] => \E j \in Idx : f = TestfileName(j)]_vars

\* in a second run the file of index 0 is being overwritten while the file
\* of index 1 is as the first run left it
C22_Witness ==
    /\ i = 1
    /\ args.threads >= 2
    /\ FileOf(0).st = "writing"
    /\ gen[1] = "queued"
    /\ FileOf(1) = Written

\* the states of a process before the pool of its first run exists
BeforeFirstRun == {"loop", "probe", "probe_sleep", "run_upload", "aborted"}

\* C23: with a worker count of 0 or less the process never gets past the
\* entry of its first run: no payload file is written, no generator or upload
\* is queued, the barrier is never polled, no upload request is made, no run
\* returns and neither a per-run report nor the final report nor a report
\* file is produced; the step that follows the readiness probe is the abort;
\* and the process aborts for no other reason than the worker count.
C23_InvalidCountAborts ==
    /\ [](args.threads <= 0 =>
            /\ pc \in BeforeFirstRun
            /\ i = 0
            /\ \A f \in AllNames : files[f].st = "absent"
            /\ queue = << >>
            /\ polled = {}
            /\ Idx = {}
            /\ result = NoResult
            /\ stdout \in {NoReport, Banner(1)}
            /\ final = NoReport
            /\ saved = NoReport
            /\ HistCount = 0)
    /\ [][(args.threads <= 0 /\ pc = "run_upload") => pc' = "aborted"]_vars
    /\ [][pc = "aborted" => pc' = "aborted"]_vars
    /\ [](pc = "aborted" => args.threads <= 0)

\* the process was started with an invalid worker count, announced its
\* first run, found the gateway ready and has aborted
C23_Witness ==
    /\ pc = "aborted"
    /\ args.threads <= 0
    /\ server = "hello"
    /\ stdout = Banner(1)

\* C24: wait_for_server returns only on a probe that answered exactly
\* "hello world", and every probe that did not match, whether the request
\* failed or answered with another body, is followed by the 1-second sleep
\* before the next probe.
C24_ProbeEverySecond ==
    /\ [][(pc = "probe" /\ pc' = "run_upload") => server' = "hello"]_vars
    /\ [][(pc = "probe" /\ pc' # "run_upload") => pc' = "probe_sleep"]_vars
    /\ [][pc = "probe_sleep" => pc' = "probe"]_vars

====
